---- MODULE Spec2Model ----
(***************************************************************************)
(* A model of zhenxun/services/cache.py (CacheData, CacheGetter,           *)
(* CacheManager, Cache) together with the hooks that                       *)
(* zhenxun/builtin_plugins/init/__init_cache.py registers on it.           *)
(*                                                                         *)
(* Strings are sequences of characters, so that name.upper(),              *)
(* f"{name}:{key}" and key.split(":", 1)[1] are computed, not assumed.     *)
(* Every coroutine is cut at its awaits: the effect of the awaited store   *)
(* or database call is one step, the synchronous code that runs when the   *)
(* coroutine is resumed is the next.                                       *)
(***************************************************************************)
EXTENDS Integers, Sequences, FiniteSets, TLC

VARIABLES
    data,     \* CacheManager._data: upper-case name -> CacheData
    store,    \* the aiocache memory store: cache key -> [val, ttl]
    db,       \* the backing tables the loaders and hooks query
    tasks,    \* the coroutines in flight: task id -> frame
    reg,      \* outcome of the last call of a CacheManager decorator
    serial,   \* TRUE: the one caller awaits each call before the next
    pre,      \* serial caller: the cache as it was when the call started
    last,     \* serial caller: the cache the last call reloaded, if neither
              \* time nor the tables have moved since
    calls,    \* interleaved callers: the calls started so far
    lapsed    \* serial caller: the cache keys whose ttl ran out since its
              \* last call

vars == <<data, store, db, tasks, reg, serial, pre, last, calls, lapsed>>

(***************************************************************************)
(* Bounds of the model.                                                    *)
(***************************************************************************)
NumTasks == 2
MaxVer == 1
MaxExpire == 1
MaxReload == 2
MaxCalls == 3

Tasks == 1..NumTasks

(***************************************************************************)
(* Strings.  A string is a sequence of characters; the characters of the   *)
(* model are the letters below, ":" and the whole word "default".          *)
(***************************************************************************)
\* str.upper() on one character (cache.py:36, 546)
UpperChar(ch) ==
    CASE ch = "p" -> "P"
      [] ch = "b" -> "B"
      [] OTHER -> ch

\* name.upper()
Upper(s) == [i \in DOMAIN s |-> UpperChar(s[i])]

\* the names call sites pass to the CacheManager decorators and calls
RawNames == {<<"p">>, <<"P">>, <<"b">>}

\* the names an entry can be registered under
CacheNames == {Upper(n) : n \in RawNames}

\* the record keys of the backing tables
RecKeys == {<<"x">>, <<"y">>}

\* the sentinel key of CacheData.reload for an un-keyed loader result
DefaultKey == <<"default">>

\* CacheData._get_cache_key: f"{self.name}:{key}"
_get_cache_key(name, key) == name \o <<":">> \o key

\* index of the first ":" of a string that holds one
FirstColon(s) == CHOOSE i \in 1..Len(s) : s[i] = ":" /\ \A j \in 1..(i - 1) : s[j] # ":"

\* key.split(":", 1)[1] of CacheData.get_all_data
original_key(ck) == SubSeq(ck, FirstColon(ck) + 1, Len(ck))

(***************************************************************************)
(* Values.  One record shape for every Python value the cache handles:     *)
(*   t = "None"    None                                                    *)
(*   t = "obj"     an ORM model instance with the fields of row (k, v);    *)
(*                 v = 0 is an instance whose fields are all default       *)
(*   t = "dict"    a JSON mapping: the fields of row (k, v) when f, and    *)
(*                 under each key q with m[q] > 0 the fields of (q, m[q])  *)
(*   t = "pydict"  the same mapping holding model instances                *)
(*   t = "list"    a JSON array of the field mappings of rows (q, m[q])    *)
(*   t = "pylist"  a Python list of the model instances (q, m[q])          *)
(*   t = "raise"   no value: the computation raised                        *)
(***************************************************************************)
NoRows == [q \in RecKeys |-> 0]

None == [t |-> "None", f |-> FALSE, k |-> <<>>, v |-> 0, m |-> NoRows]

\* the exception outcome of a computation that returns a value otherwise
Raised == [t |-> "raise", f |-> FALSE, k |-> <<>>, v |-> 0, m |-> NoRows]

\* the ORM instance of row (k, v)
Obj(k, v) == [t |-> "obj", f |-> TRUE, k |-> k, v |-> v, m |-> NoRows]

\* target_type() with no field set (cache.py:162)
BlankObj == [t |-> "obj", f |-> TRUE, k |-> <<>>, v |-> 0, m |-> NoRows]

\* {k: instance of (k, rows[k])} for the rows present
PyDict(rows) == [t |-> "pydict", f |-> FALSE, k |-> <<>>, v |-> 0, m |-> rows]

\* [instance of (k, rows[k])] for the rows present
PyList(rows) == [t |-> "pylist", f |-> FALSE, k |-> <<>>, v |-> 0, m |-> rows]

\* the literal {} of `or {}`
EmptyDict == [t |-> "dict", f |-> FALSE, k |-> <<>>, v |-> 0, m |-> NoRows]

\* the literal [] of `or []`
EmptyList == [t |-> "list", f |-> FALSE, k |-> <<>>, v |-> 0, m |-> NoRows]

\* Python truth of a value (`x or {}`, `if current_data:`)
Truthy(val) ==
    CASE val.t = "None" -> FALSE
      [] val.t \in {"dict", "pydict"} -> val.f \/ val.m # NoRows
      [] val.t \in {"list", "pylist"} -> val.m # NoRows
      [] OTHER -> TRUE

IsDict(val) == val.t \in {"dict", "pydict"}
IsList(val) == val.t \in {"list", "pylist"}

\* the keys of a mapping or the rows of a list
Rows(val) == {q \in RecKeys : val.m[q] > 0}

\* CacheData._serialize_value (cache.py:254-305): a model instance becomes
\* the mapping of its fields, a mapping or list is serialized element-wise
_serialize_value(val) ==
    CASE val.t = "None" -> None
      [] val.t = "obj" -> [val EXCEPT !.t = "dict", !.f = TRUE]
      [] val.t = "pydict" -> [val EXCEPT !.t = "dict"]
      [] val.t = "pylist" -> [val EXCEPT !.t = "list"]
      [] OTHER -> val

\* CacheData._deserialize_value (cache.py:123-212); target is the
\* result_model: "None", "Model" (a Tortoise model class), "list"
\* (list[Model]) or "dict" (the plain dict type)
_deserialize_value(val, target) ==
    CASE val.t = "None" -> None
      \* a mapping and a model class: one instance from the entries that
      \* name fields (137-180); the entries under record keys name none
      [] IsDict(val) /\ target = "Model" ->
            IF val.f THEN Obj(val.k, val.v) ELSE BlankObj
      \* list[Model] has none of _meta, model_validate, from_dict,
      \* parse_obj: target_type(**value) (189) is list(**value)
      [] IsDict(val) /\ target = "list" ->
            IF Truthy(val) THEN Raised ELSE EmptyList
      \* dict(**value): the same mapping
      [] IsDict(val) /\ target = "dict" -> val
      \* a list: element-wise against the item type of list[Model] (195-201)
      [] val.t = "list" /\ target = "list" -> [val EXCEPT !.t = "pylist"]
      [] OTHER -> val

(***************************************************************************)
(* The registry: CacheManager._data and the decorators that fill it.       *)
(* Hooks are named by what the registered function does:                   *)
(*   func          "load_dict"  {row key: instance} of every row           *)
(*                 "load_list"  [instance] of every row                    *)
(*   getter        "fetch"      read the dataset, fetch the row on a miss  *)
(*                 "filter"     read the dataset, return the matching rows *)
(*   updater       "put"        data[key] = value, or the fetched row      *)
(*   with_refresh  "requery"    data.update(rows of data.keys())           *)
(***************************************************************************)
Loaders == {"load_dict", "load_list"}
Getters == {"fetch", "filter"}
Models == {"Model", "list", "dict"}

\* CacheData(name=, func=, expire=, lazy_load=) with the field defaults
CacheData(name, func, expire, lazy_load) ==
    [name |-> name, func |-> func, getter |-> "None", updater |-> "None",
     with_refresh |-> "None", expire |-> expire, reload_count |-> 0,
     lazy_load |-> lazy_load, result_model |-> "None", keys |-> {}]

\* a lookup that never fails
validate_name_never(d, name) == FALSE

\* validate_name: the name as looked up, and whether the lookup fails
validate_name(d, name) == Upper(name) \notin DOMAIN d

\* d with entry n put or replaced
Put(d, n, e) == [x \in DOMAIN d \cup {n} |-> IF x = n THEN e ELSE d[x]]

\* a registration that replaces the entry of the name
new_replace(d, name, lazy_load, expire, func) ==
    Put(d, Upper(name), CacheData(Upper(name), func, expire, lazy_load))

\* CacheManager.new(name, lazy_load, expire)(func): the registry afterwards
new(d, name, lazy_load, expire, func) ==
    IF Upper(name) \in DOMAIN d
        THEN d
        ELSE Put(d, Upper(name), CacheData(Upper(name), func, expire, lazy_load))

\* whether CacheManager.new raises DbCacheException
new_raises(d, name) == Upper(name) \in DOMAIN d

\* CacheManager.updater(name)(func)
updater(d, name, func) ==
    IF validate_name(d, name)
        THEN d
        ELSE [d EXCEPT ![Upper(name)].updater = func]

\* CacheManager.getter(name, result_model)(func)
getter(d, name, result_model, func) ==
    IF validate_name(d, name)
        THEN d
        ELSE [d EXCEPT ![Upper(name)].getter = func,
                       ![Upper(name)].result_model = result_model]

\* CacheManager.with_refresh(name)(func)
with_refresh(d, name, func) ==
    IF validate_name(d, name)
        THEN d
        ELSE [d EXCEPT ![Upper(name)].with_refresh = func]

\* the record of a decorator call: what was called and what it raised
RegCall(call, name, raised) ==
    [call |-> call, name |-> name,
     exc |-> IF raised THEN "DbCacheException" ELSE "None"]

NoCall == [call |-> "None", name |-> <<>>, exc |-> "None"]

(***************************************************************************)
(* The store (aiocache, memory backend) and the backing tables.            *)
(***************************************************************************)
\* await self._cache.get(key): the value, None when absent
StoreGet(st, ck) == IF ck \in DOMAIN st THEN st[ck].val ELSE None

\* a set that drops the key when the store holds it
StoreSet_toggle(st, ck, val, ttl) ==
    IF ck \in DOMAIN st
        THEN [x \in DOMAIN st \ {ck} |-> st[x]]
        ELSE [x \in DOMAIN st \cup {ck} |-> IF x = ck THEN [val |-> val, ttl |-> ttl] ELSE st[x]]

\* await self._cache.set(key, value, ttl=self.expire)
StoreSet(st, ck, val, ttl) ==
    [x \in DOMAIN st \cup {ck} |-> IF x = ck THEN [val |-> val, ttl |-> ttl] ELSE st[x]]

\* await self._cache.delete(key)
StoreDelete(st, ck) == [x \in DOMAIN st \ {ck} |-> st[x]]

\* the order in which a query returns the rows
RecKeySeq == << <<"x">>, <<"y">> >>

\* the loader registered by CacheManager.new: every row, keyed or as a list
func(name, rows) == IF name = "load_dict" THEN PyDict(rows) ELSE PyList(rows)

\* the keys CacheData.reload passes to set_key, in order (cache.py:400-405)
reload_keys(new_data) ==
    IF IsDict(new_data)
        THEN SelectSeq(RecKeySeq, LAMBDA q : new_data.m[q] > 0)
        ELSE <<DefaultKey>>

\* the value CacheData.reload passes to set_key with key q
reload_value(new_data, q) ==
    IF IsDict(new_data) THEN Obj(q, new_data.m[q]) ELSE new_data

\* data[key] = value on a mapping; anything else rejects item assignment
SetItem(container, key, val) ==
    IF IsDict(container)
        THEN [container EXCEPT !.t = "pydict", !.m[key] = val.v]
        ELSE Raised

\* data.get(key) on a mapping
GetItem(container, key) ==
    IF container.m[key] = 0 THEN None
    ELSE IF container.t = "pydict" THEN Obj(key, container.m[key])
    ELSE [t |-> "dict", f |-> TRUE, k |-> key, v |-> container.m[key], m |-> NoRows]

(***************************************************************************)
(* Coroutine frames.  pc names the await the coroutine is suspended at;     *)
(* fault records that a call of the store failed under this call.  In the  *)
(* wrapper of CacheManager.listener, wrap is how the wrapped function      *)
(* ended and nref counts the calls of refresh.  In init_non_lazy_caches,   *)
(* todo holds the entries the loop has not reached yet and ran the reloads *)
(* it has awaited, each with what it raised.                               *)
(***************************************************************************)
IdleFrame ==
    [op |-> "idle", pc |-> "idle", c |-> <<>>, key |-> <<>>, arg |-> None,
     cur |-> None, out |-> None, left |-> <<>>, ck |-> <<>>, seen |-> {},
     snap |-> {}, acc |-> {}, ret |-> None, exc |-> "None", fault |-> FALSE,
     wrap |-> "None", nref |-> 0, todo |-> <<>>, ran |-> <<>>]

\* a call of op on cache c with its arguments, not yet suspended
Frame(op, c, key, arg) == [IdleFrame EXCEPT !.op = op, !.c = c, !.key = key, !.arg = arg]

\* frame fr after a call of the store that answered (ok) or failed
Faulted(fr, ok) == [fr EXCEPT !.fault = @ \/ ~ok]

\* a loop that ends at the first reload that raises
init_next_stop(fr) ==
    LET rest == SelectSeq(fr.todo, LAMBDA n : ~data[n].lazy_load) IN
    IF rest = <<>> \/ (fr.ran # <<>> /\ fr.ran[Len(fr.ran)].exc # "None")
        THEN [IdleFrame EXCEPT !.op = "init", !.pc = "done", !.ran = fr.ran]
        ELSE [IdleFrame EXCEPT !.op = "init", !.pc = "reload_func", !.c = Head(rest),
                               !.todo = Tail(rest), !.ran = fr.ran]

\* init_non_lazy_caches: the loop goes on to the next entry that has
\* lazy_load False and awaits its reload, or ends (cache.py:528-534)
init_next(fr) ==
    LET rest == SelectSeq(fr.todo, LAMBDA n : ~data[n].lazy_load) IN
    IF rest = <<>>
        THEN [IdleFrame EXCEPT !.op = "init", !.pc = "done", !.ran = fr.ran]
        ELSE [IdleFrame EXCEPT !.op = "init", !.pc = "reload_func", !.c = Head(rest),
                               !.todo = Tail(rest), !.ran = fr.ran]

\* the call returns ret (get_all: the mapping acc) or raises exc; a reload
\* awaited by init_non_lazy_caches hands over to its loop, which logs what
\* it raised (cache.py:530-534)
Finish(fr, ret, acc, exc) ==
    IF fr.op = "init"
        THEN init_next([fr EXCEPT !.ran = Append(@, [c |-> fr.c, exc |-> exc])])
    ELSE
    [IdleFrame EXCEPT !.op = fr.op, !.pc = "done", !.c = fr.c, !.key = fr.key,
                      !.arg = fr.arg, !.out = fr.out, !.ret = ret, !.acc = acc,
                      !.exc = exc, !.fault = fr.fault, !.wrap = fr.wrap,
                      !.nref = fr.nref]

Return(fr, ret) == Finish(fr, ret, {}, "None")
Raise(fr, exc) == Finish(fr, None, {}, exc)

AllIdle == \A t \in Tasks : tasks[t].op = "idle"

\* the awaits whose step touches nothing shared: handing over a result,
\* and the queries of the tables, which change between calls only
LocalPcs == {"done", "reload_func", "fetch", "upd_fetch", "rf_query"}

\* a step that touches nothing shared is taken at once: where it falls
\* among the steps of the other tasks changes nothing
Settled(t) == \A u \in Tasks \ {t} : tasks[u].pc \notin LocalPcs

\* the awaits of CacheData.reload
ReloadPcs == {"reload_func", "reload_end", "set_key_set", "set_key_add"}

\* who may start a call: the one caller once its last call is over; when
\* calls interleave, the lowest task that is free, MaxCalls times in all
MayCall(t) ==
    /\ tasks[t].op = "idle"
    /\ Settled(t)
    /\ \A u \in 1..(t - 1) : tasks[u].op # "idle"
    /\ IF serial THEN t = 1 ELSE calls < MaxCalls

\* task t is suspended at the await named pc and is resumed
At(t, pc) == tasks[t].pc = pc /\ Settled(t)

(***************************************************************************)
(* What the serial caller remembers of its calls.                          *)
(***************************************************************************)
EmptyStore == [x \in {} |-> [val |-> None, ttl |-> 0]]

\* the last call was no successful reload, or something moved since
NoLast == <<>>

NoPre == [store |-> EmptyStore, keys |-> {}, reload_count |-> 0, last |-> NoLast]

\* the cache of frame fr as it is now, and the call completed before
Snapshot(fr) ==
    IF fr.c \in DOMAIN data
        THEN [store |-> store, keys |-> data[fr.c].keys,
              reload_count |-> data[fr.c].reload_count, last |-> last]
        ELSE [store |-> store, keys |-> {}, reload_count |-> 0, last |-> last]

\* what a completed call leaves for the next one to compare with: the
\* name of the cache when it was a successful reload, the name after
\* "clear" when it was a clear that deleted every key it had listed
Summary(fr) ==
    IF fr.op = "reload" /\ fr.exc = "None" THEN fr.c
    ELSE IF fr.op = "clear" /\ ~fr.fault THEN <<"clear">> \o fr.c
    ELSE NoLast

\* the serial caller's bookkeeping for a step of task t
Ghost(t) ==
    IF ~serial
        THEN /\ calls' = IF tasks[t].op = "idle" THEN calls + 1 ELSE calls
             /\ UNCHANGED <<pre, last, lapsed>>
        ELSE /\ UNCHANGED calls
             /\ lapsed' = IF tasks'[t].op = "idle" THEN {} ELSE lapsed
             /\ pre' = IF tasks[t].op = "idle" THEN Snapshot(tasks'[t])
                       ELSE IF tasks'[t].op = "idle" THEN NoPre
                       ELSE pre
             /\ last' = IF tasks'[t].pc = "done" /\ tasks[t].pc # "done"
                            THEN Summary(tasks'[t])
                            ELSE last

(***************************************************************************)
(* CacheData: the synchronous code between awaits.                         *)
(***************************************************************************)
\* CacheData.get after the first-access check, up to its first await
\* (cache.py:339-342, CacheGetter.get 50-61)
get_dispatch(fr, d) ==
    IF d.getter = "None"
        THEN [fr EXCEPT !.pc = "get_key", !.ck = _get_cache_key(d.name, fr.key)]
        ELSE [fr EXCEPT !.pc = "get_data"]

\* CacheData.get_all after the first-access check: get_all_data starts to
\* iterate self._keys (cache.py:349-352, 67-70, 471-476); the set's order
\* is any
get_all_start(fr, d) ==
    IF d.keys = {}
        THEN {Finish(fr, None, {}, "None")}
        ELSE {[fr EXCEPT !.pc = "gad_get", !.ck = ck, !.snap = d.keys] : ck \in d.keys}

\* self._keys.add(cache_key) (cache.py:494)
set_key_add(d, ck) == [d EXCEPT !.keys = @ \cup {ck}]

\* a reload counted twice
reload_done_twice(d) == [d EXCEPT !.reload_count = @ + 2]

\* self.reload_count += 1 (cache.py:407)
reload_done(d) == [d EXCEPT !.reload_count = @ + 1]

\* where the caller of reload goes on once reload has returned
after_reload(fr, d) ==
    CASE fr.op = "get" -> {get_dispatch(fr, d)}
      [] fr.op = "get_all" -> get_all_start(fr, d)
      [] OTHER -> {Return(fr, None)}

\* a first-access check that ignores lazy_load
first_access_count(d) == d.reload_count = 0

\* `if not self.reload_count and not self.lazy_load` (cache.py:336, 346)
first_access(d) == d.reload_count = 0 /\ ~d.lazy_load

\* get_key / get_data after the store answered raw (ok) or failed: the
\* deserialized value, None on any exception (cache.py:436-445, 216-252)
read_result(d, ok, raw) ==
    IF ~ok THEN None
    ELSE IF d.result_model = "None" THEN raw
    ELSE IF _deserialize_value(raw, d.result_model) = Raised THEN None
    ELSE _deserialize_value(raw, d.result_model)

\* CacheGetter.get after get_func returned data (cache.py:63-65)
getter_return(fr, d, val) ==
    IF _deserialize_value(val, d.result_model) = Raised
        THEN Raise(fr, "TypeError")
        ELSE Return(fr, _deserialize_value(val, d.result_model))

\* the updater of __init_cache.py:22-28 with value given, then set_key
updater_put(fr, val) ==
    IF SetItem(fr.cur, fr.key, val) = Raised
        THEN Raise(fr, "TypeError")
        ELSE [fr EXCEPT !.pc = "set_key_set", !.left = <<fr.key>>,
                        !.cur = SetItem(fr.cur, fr.key, val)]

(***************************************************************************)
(* Calls: the synchronous code of a call up to its first await.            *)
(***************************************************************************)
\* the reloads of cache c completed or in flight; the callers of the model
\* ask for MaxReload at most
ReloadsStarted(c) ==
    data[c].reload_count
        + Cardinality({u \in Tasks : /\ tasks[u].c = c
                                      /\ tasks[u].op \notin {"update", "set_key"}
                                      /\ tasks[u].pc \in ReloadPcs})

\* CacheData.get(key) (cache.py:334-342)
CallGet(t, c, key) ==
    /\ MayCall(t)
    /\ c \in DOMAIN data
    /\ LET fr == Frame("get", c, key, None) IN
        tasks' = [tasks EXCEPT ![t] =
                    IF first_access(data[c])
                        THEN [fr EXCEPT !.pc = "reload_func"]
                        ELSE get_dispatch(fr, data[c])]
    /\ UNCHANGED <<data, store, db, reg, serial>>
    /\ Ghost(t)

\* CacheData.get_all() (cache.py:344-352)
CallGetAll(t, c) ==
    /\ MayCall(t)
    /\ c \in DOMAIN data
    /\ LET fr == Frame("get_all", c, <<>>, None) IN
        \E nf \in (IF first_access(data[c])
                      THEN {[fr EXCEPT !.pc = "reload_func"]}
                      ELSE get_all_start(fr, data[c])) :
            tasks' = [tasks EXCEPT ![t] = nf]
    /\ UNCHANGED <<data, store, db, reg, serial>>
    /\ Ghost(t)

\* an update that does not look for the updater
CallUpdate_unchecked(t, c, key, arg) ==
    /\ MayCall(t)
    /\ c \in DOMAIN data
    /\ tasks' = [tasks EXCEPT ![t] =
                    [Frame("update", c, key, arg) EXCEPT
                        !.pc = "get_key", !.ck = _get_cache_key(data[c].name, key)]]
    /\ UNCHANGED <<data, store, db, reg, serial>>
    /\ Ghost(t)

\* CacheData.update(key, value) (cache.py:354-360)
CallUpdate(t, c, key, arg) ==
    /\ MayCall(t)
    /\ c \in DOMAIN data
    /\ LET fr == Frame("update", c, key, arg) IN
        tasks' = [tasks EXCEPT ![t] =
                    IF data[c].updater = "None"
                        THEN Return(fr, None)
                        ELSE [fr EXCEPT !.pc = "get_key",
                                        !.ck = _get_cache_key(data[c].name, key)]]
    /\ UNCHANGED <<data, store, db, reg, serial>>
    /\ Ghost(t)

\* a refresh that returns at once when there is no refresher
CallRefresh_noop(t, c) ==
    /\ MayCall(t)
    /\ c \in DOMAIN data
    /\ LET fr == Frame("refresh", c, <<>>, None) IN
        tasks' = [tasks EXCEPT ![t] =
                    IF data[c].with_refresh = "None"
                        THEN Return(fr, None)
                        ELSE [fr EXCEPT !.pc = "get_data"]]
    /\ UNCHANGED <<data, store, db, reg, serial>>
    /\ Ghost(t)

\* CacheData.refresh() (cache.py:369-374)
CallRefresh(t, c) ==
    /\ MayCall(t)
    /\ c \in DOMAIN data
    /\ data[c].with_refresh = "None" => ReloadsStarted(c) < MaxReload
    /\ LET fr == Frame("refresh", c, <<>>, None) IN
        tasks' = [tasks EXCEPT ![t] =
                    IF data[c].with_refresh = "None"
                        THEN [fr EXCEPT !.pc = "reload_func"]
                        ELSE [fr EXCEPT !.pc = "get_data"]]
    /\ UNCHANGED <<data, store, db, reg, serial>>
    /\ Ghost(t)

\* CacheData.reload() (cache.py:383-397)
CallReload(t, c) ==
    /\ MayCall(t)
    /\ c \in DOMAIN data
    /\ ReloadsStarted(c) < MaxReload
    /\ tasks' = [tasks EXCEPT ![t] = [Frame("reload", c, <<>>, None) EXCEPT !.pc = "reload_func"]]
    /\ UNCHANGED <<data, store, db, reg, serial>>
    /\ Ghost(t)

\* the caller takes the result of its call
Done(t) ==
    /\ tasks[t].pc = "done"
    /\ tasks' = [tasks EXCEPT ![t] = IdleFrame]
    /\ UNCHANGED <<data, store, db, reg, serial>>
    /\ Ghost(t)

(***************************************************************************)
(* CacheData.reload and set_key.                                           *)
(***************************************************************************)
\* a reload that swallows the failure of its loader
ReloadFunc_swallow(t) ==
    /\ At(t, "reload_func")
    /\ LET fr == tasks[t]
           new_data == func(data[fr.c].func, db[fr.c]) IN
        \/ tasks' = [tasks EXCEPT ![t] =
                        [fr EXCEPT !.out = new_data,
                                   !.left = reload_keys(new_data),
                                   !.pc = IF reload_keys(new_data) = <<>>
                                              THEN "reload_end"
                                              ELSE "set_key_set"]]
        \/ tasks' = [tasks EXCEPT ![t] = Return(fr, None)]
    /\ UNCHANGED <<data, store, db, reg, serial>>
    /\ Ghost(t)

\* await self.func(): the loader returns the rows or raises
\* (cache.py:385-405, 409-411)
ReloadFunc(t) ==
    /\ At(t, "reload_func")
    /\ LET fr == tasks[t]
           new_data == func(data[fr.c].func, db[fr.c]) IN
        \/ tasks' = [tasks EXCEPT ![t] =
                        [fr EXCEPT !.out = new_data,
                                   !.left = reload_keys(new_data),
                                   !.pc = IF reload_keys(new_data) = <<>>
                                              THEN "reload_end"
                                              ELSE "set_key_set"]]
        \/ tasks' = [tasks EXCEPT ![t] = Raise(fr, "LoaderError")]
    /\ UNCHANGED <<data, store, db, reg, serial>>
    /\ Ghost(t)

\* the loader returned an empty mapping: reload_count += 1 (cache.py:407)
ReloadEnd(t) ==
    /\ At(t, "reload_end")
    /\ LET fr == tasks[t]
           d == reload_done(data[fr.c]) IN
        /\ data' = [data EXCEPT ![fr.c] = d]
        /\ \E nf \in after_reload(fr, d) : tasks' = [tasks EXCEPT ![t] = nf]
    /\ UNCHANGED <<store, db, reg, serial>>
    /\ Ghost(t)

\* the value the pending set_key of frame fr writes
set_key_value(fr) ==
    IF fr.op \in {"update", "set_key"}
        THEN fr.cur
        ELSE reload_value(fr.out, Head(fr.left))

\* set_key: await self._cache.set(cache_key, serialized_value,
\* ttl=self.expire); a store failure is logged and raised (cache.py:490-498)
SetKeySet(t) ==
    /\ At(t, "set_key_set")
    /\ LET fr == tasks[t]
           d == data[fr.c]
           ck == _get_cache_key(d.name, Head(fr.left)) IN
        \/ /\ store' = StoreSet(store, ck, _serialize_value(set_key_value(fr)), d.expire)
           /\ tasks' = [tasks EXCEPT ![t] = [fr EXCEPT !.pc = "set_key_add", !.ck = ck]]
        \/ /\ tasks' = [tasks EXCEPT ![t] = Raise(Faulted(fr, FALSE), "StoreError")]
           /\ UNCHANGED store
    /\ UNCHANGED <<data, db, reg, serial>>
    /\ Ghost(t)

\* set_key resumed: self._keys.add(cache_key); then update returns, a
\* caller of set_key has its call back, reload
\* sets the next key or counts the reload (cache.py:494, 401-407)
SetKeyAdd(t) ==
    /\ At(t, "set_key_add")
    /\ LET fr == tasks[t]
           d == set_key_add(data[fr.c], fr.ck) IN
        IF fr.op \in {"update", "set_key"}
            THEN /\ data' = [data EXCEPT ![fr.c] = d]
                 /\ tasks' = [tasks EXCEPT ![t] = Return(fr, None)]
        ELSE IF Tail(fr.left) # <<>>
            THEN /\ data' = [data EXCEPT ![fr.c] = d]
                 /\ tasks' = [tasks EXCEPT ![t] =
                                [fr EXCEPT !.pc = "set_key_set", !.left = Tail(fr.left),
                                           !.ck = <<>>]]
        ELSE /\ data' = [data EXCEPT ![fr.c] = reload_done(d)]
             /\ \E nf \in after_reload([fr EXCEPT !.left = <<>>, !.ck = <<>>], reload_done(d)) :
                    tasks' = [tasks EXCEPT ![t] = nf]
    /\ UNCHANGED <<store, db, reg, serial>>
    /\ Ghost(t)

(***************************************************************************)
(* get_key, update, get_data, the getters, refresh, set_data.              *)
(***************************************************************************)
\* the caller of get_key goes on with res: get returns it; update takes
\* `res or {}` and runs the updater (cache.py:340, 360-366)
after_get_key(fr, res) ==
    IF fr.op = "get" THEN Return(fr, res)
    ELSE LET cur == IF Truthy(res) THEN res ELSE EmptyDict IN
         IF Truthy(fr.arg)
            THEN updater_put([fr EXCEPT !.cur = cur, !.ck = <<>>], fr.arg)
            ELSE [fr EXCEPT !.cur = cur, !.ck = <<>>, !.pc = "upd_fetch"]

\* get_key: await self._cache.get(cache_key); a store failure is logged
\* and None returned (cache.py:435-445)
GetKey(t) ==
    /\ At(t, "get_key")
    /\ LET fr == tasks[t] IN
        \E ok \in BOOLEAN :
            tasks' = [tasks EXCEPT ![t] =
                after_get_key(Faulted(fr, ok),
                              read_result(data[fr.c], ok, StoreGet(store, fr.ck)))]
    /\ UNCHANGED <<data, store, db, reg, serial>>
    /\ Ghost(t)

\* the updater with no value given: the row is fetched and, if there is
\* one, data[key] = row (__init_cache.py:27-28); then set_key
UpdFetch(t) ==
    /\ At(t, "upd_fetch")
    /\ LET fr == tasks[t]
           row == db[fr.c][fr.key] IN
        tasks' = [tasks EXCEPT ![t] =
                    IF row > 0
                        THEN updater_put(fr, Obj(fr.key, row))
                        ELSE [fr EXCEPT !.pc = "set_key_set", !.left = <<fr.key>>]]
    /\ UNCHANGED <<data, store, db, reg, serial>>
    /\ Ghost(t)

\* the getter of __init_cache.py:31-40 once get_data returned res:
\* data = res or {}; a hit returns data.get(key), a miss fetches the row.
\* data is a model instance when the dataset was read back against a model
\* class: `in` and item assignment need a mapping
getter_fetch(fr, d, res) ==
    LET cur == IF Truthy(res) THEN res ELSE EmptyDict IN
    IF ~IsDict(cur) THEN Raise(fr, "TypeError")
    ELSE IF cur.m[fr.key] > 0 THEN getter_return(fr, d, GetItem(cur, fr.key))
    ELSE [fr EXCEPT !.cur = cur, !.pc = "fetch"]

\* the getter of __init_cache.py:183-193 once get_data returned res:
\* data = res or []; the records of data that match the key
getter_filter(fr, d, res) ==
    LET cur == IF Truthy(res) THEN res ELSE EmptyList IN
    IF cur.t = "pylist" \/ ~Truthy(cur)
        THEN getter_return(fr, d,
                PyList([q \in RecKeys |-> IF q = fr.key THEN cur.m[q] ELSE 0]))
        ELSE Raise(fr, "AttributeError")

\* CacheData.refresh once get_data returned res (cache.py:374-379) and the
\* refresher of __init_cache.py:43-49 up to its query: data.keys() needs a
\* mapping
refresh_start(fr, res) ==
    IF ~Truthy(res) THEN Return(fr, None)
    ELSE IF IsDict(res) THEN [fr EXCEPT !.cur = res, !.pc = "rf_query"]
    ELSE Raise(fr, "AttributeError")

\* where the caller of get_data goes on
after_get_data(fr, d, res) ==
    CASE fr.op = "refresh" -> refresh_start(fr, res)
      [] d.getter = "fetch" -> getter_fetch(fr, d, res)
      [] OTHER -> getter_filter(fr, d, res)

\* get_data: await self._cache.get(self.name); any exception is logged and
\* None returned (cache.py:216-252)
GetData(t) ==
    /\ At(t, "get_data")
    /\ LET fr == tasks[t]
           d == data[fr.c] IN
        \E ok \in BOOLEAN :
            tasks' = [tasks EXCEPT ![t] =
                after_get_data(Faulted(fr, ok), d,
                               read_result(d, ok, StoreGet(store, d.name)))]
    /\ UNCHANGED <<data, store, db, reg, serial>>
    /\ Ghost(t)

\* the getter's fetch of one row (__init_cache.py:36-40)
Fetch(t) ==
    /\ At(t, "fetch")
    /\ LET fr == tasks[t]
           row == db[fr.c][fr.key] IN
        tasks' = [tasks EXCEPT ![t] =
                    IF row > 0
                        THEN [fr EXCEPT !.cur = SetItem(fr.cur, fr.key, Obj(fr.key, row)),
                                        !.pc = "sd_del"]
                        ELSE getter_return(fr, data[fr.c], GetItem(fr.cur, fr.key))]
    /\ UNCHANGED <<data, store, db, reg, serial>>
    /\ Ghost(t)

\* the refresher's query: data.update(rows of data.keys())
\* (__init_cache.py:48-49); then set_data
RefreshQuery(t) ==
    /\ At(t, "rf_query")
    /\ LET fr == tasks[t]
           rows == [q \in RecKeys |->
                        IF fr.cur.m[q] > 0 /\ db[fr.c][q] > 0
                            THEN db[fr.c][q] ELSE fr.cur.m[q]] IN
        tasks' = [tasks EXCEPT ![t] =
                    [fr EXCEPT !.cur = [fr.cur EXCEPT !.t = "pydict", !.m = rows],
                               !.pc = "sd_del"]]
    /\ UNCHANGED <<data, store, db, reg, serial>>
    /\ Ghost(t)

\* set_data: await self._cache.delete(self.name); a store failure is
\* logged and raised (cache.py:316, 323-325)
SetDataDelete(t) ==
    /\ At(t, "sd_del")
    /\ LET fr == tasks[t] IN
        \/ /\ store' = StoreDelete(store, data[fr.c].name)
           /\ tasks' = [tasks EXCEPT ![t] = [fr EXCEPT !.pc = "sd_set"]]
        \/ /\ tasks' = [tasks EXCEPT ![t] = Raise(Faulted(fr, FALSE), "StoreError")]
           /\ UNCHANGED store
    /\ UNCHANGED <<data, db, reg, serial>>
    /\ Ghost(t)

\* set_data: await self._cache.set(self.name, serialized_value,
\* ttl=self.expire) (cache.py:320-325); then the getter returns
\* data.get(key), refresh returns
SetDataSet(t) ==
    /\ At(t, "sd_set")
    /\ LET fr == tasks[t]
           d == data[fr.c] IN
        \/ /\ store' = StoreSet(store, d.name, _serialize_value(fr.cur), d.expire)
           /\ tasks' = [tasks EXCEPT ![t] =
                          IF fr.op = "refresh"
                              THEN Return(fr, None)
                              ELSE getter_return(fr, d, GetItem(fr.cur, fr.key))]
        \/ /\ tasks' = [tasks EXCEPT ![t] = Raise(Faulted(fr, FALSE), "StoreError")]
           /\ UNCHANGED store
    /\ UNCHANGED <<data, db, reg, serial>>
    /\ Ghost(t)

(***************************************************************************)
(* get_all_data.                                                           *)
(***************************************************************************)
\* CacheGetter.get_all after get_all_data returned acc: every value is
\* deserialized once more (cache.py:71-76); without a getter acc is returned
get_all_return(fr, d, acc) ==
    IF d.getter = "None" THEN Finish(fr, None, acc, "None")
    ELSE IF \E e \in acc : _deserialize_value(e.val, d.result_model) = Raised
        THEN Raise(fr, "TypeError")
    ELSE Finish(fr, None,
                {[k |-> e.k, val |-> _deserialize_value(e.val, d.result_model)] : e \in acc},
                "None")

\* get_all_data: await self._cache.get(key); any exception is logged and
\* {} returned (cache.py:476, 484-486)
GadGet(t) ==
    /\ At(t, "gad_get")
    /\ LET fr == tasks[t] IN
        \/ tasks' = [tasks EXCEPT ![t] = [fr EXCEPT !.cur = StoreGet(store, fr.ck),
                                                    !.pc = "gad_next"]]
        \/ tasks' = [tasks EXCEPT ![t] = Finish(Faulted(fr, FALSE), None, {}, "None")]
    /\ UNCHANGED <<data, store, db, reg, serial>>
    /\ Ghost(t)

\* get_all_data resumed: result[original_key] = data, then the set
\* iterator steps on: it raises RuntimeError when the set changed size, it
\* may pass over a key added since it started (cache.py:473-486)
GadNext(t) ==
    /\ At(t, "gad_next")
    /\ LET fr == tasks[t]
           d == data[fr.c]
           val == IF d.result_model = "None" THEN fr.cur
                  ELSE _deserialize_value(fr.cur, d.result_model)
           acc == fr.acc \cup {[k |-> original_key(fr.ck), val |-> val]}
           seen == fr.seen \cup {fr.ck} IN
        IF val = Raised \/ Cardinality(d.keys) # Cardinality(fr.snap)
            THEN tasks' = [tasks EXCEPT ![t] = Finish(fr, None, {}, "None")]
            ELSE \/ /\ (d.keys \ seen) \cap fr.snap = {}
                    /\ tasks' = [tasks EXCEPT ![t] = get_all_return(fr, d, acc)]
                 \/ \E nk \in d.keys \ seen :
                        tasks' = [tasks EXCEPT ![t] =
                            [fr EXCEPT !.acc = acc, !.seen = seen, !.ck = nk,
                                       !.cur = None, !.pc = "gad_get"]]
    /\ UNCHANGED <<data, store, db, reg, serial>>
    /\ Ghost(t)

(***************************************************************************)
(* set_key and delete_key called from outside, clear.                      *)
(***************************************************************************)
\* CacheData.set_key(key, value) up to its await (cache.py:488-492)
CallSetKey(t, c, key, val) ==
    /\ MayCall(t)
    /\ c \in DOMAIN data
    /\ tasks' = [tasks EXCEPT ![t] =
                    [Frame("set_key", c, key, val) EXCEPT
                        !.pc = "set_key_set", !.left = <<key>>, !.cur = val]]
    /\ UNCHANGED <<data, store, db, reg, serial>>
    /\ Ghost(t)

\* CacheData.delete_key(key) up to its await (cache.py:500-503)
CallDeleteKey(t, c, key) ==
    /\ MayCall(t)
    /\ c \in DOMAIN data
    /\ tasks' = [tasks EXCEPT ![t] =
                    [Frame("delete_key", c, key, None) EXCEPT
                        !.pc = "dk_del", !.ck = _get_cache_key(data[c].name, key)]]
    /\ UNCHANGED <<data, store, db, reg, serial>>
    /\ Ghost(t)

\* delete_key: await self._cache.delete(cache_key); a store failure is
\* logged and the call returns (cache.py:503, 507-508)
DeleteKeyDelete(t) ==
    /\ At(t, "dk_del")
    /\ LET fr == tasks[t] IN
        \/ /\ store' = StoreDelete(store, fr.ck)
           /\ tasks' = [tasks EXCEPT ![t] = [fr EXCEPT !.pc = "dk_discard"]]
        \/ /\ tasks' = [tasks EXCEPT ![t] = Return(Faulted(fr, FALSE), None)]
           /\ UNCHANGED store
    /\ UNCHANGED <<data, db, reg, serial>>
    /\ Ghost(t)

\* a discard that empties the set
discard_all(d, ck) == [d EXCEPT !.keys = {}]

\* self._keys.discard(cache_key) (cache.py:504)
discard(d, ck) == [d EXCEPT !.keys = @ \ {ck}]

\* delete_key resumed: the key is discarded and the call returns
\* (cache.py:504-505)
DeleteKeyDiscard(t) ==
    /\ At(t, "dk_discard")
    /\ data' = [data EXCEPT ![tasks[t].c] = discard(@, tasks[t].ck)]
    /\ tasks' = [tasks EXCEPT ![t] = Return(tasks[t], None)]
    /\ UNCHANGED <<store, db, reg, serial>>
    /\ Ghost(t)

\* a clear that keeps the set of keys
keys_clear_keep(d) == d

\* self._keys.clear() (cache.py:515)
keys_clear(d) == [d EXCEPT !.keys = {}]

\* CacheData.clear() up to its first await: list(self._keys) is taken;
\* with no key the set is cleared and the call returns (cache.py:510-516)
CallClear(t, c) ==
    /\ MayCall(t)
    /\ c \in DOMAIN data
    /\ LET fr == Frame("clear", c, <<>>, None) IN
        IF data[c].keys = {}
            THEN /\ tasks' = [tasks EXCEPT ![t] = Return(fr, None)]
                 /\ data' = [data EXCEPT ![c] = keys_clear(@)]
            ELSE /\ tasks' = [tasks EXCEPT ![t] =
                                [fr EXCEPT !.pc = "cl_del", !.snap = data[c].keys]]
                 /\ UNCHANGED data
    /\ UNCHANGED <<store, db, reg, serial>>
    /\ Ghost(t)

\* clear: await self._cache.delete(key) for the next key of the list, in
\* the list's order, which is any; a store failure is logged and the call
\* returns (cache.py:513-514, 517-518)
ClearDelete(t) ==
    /\ At(t, "cl_del")
    /\ LET fr == tasks[t] IN
        \/ \E ck \in fr.snap :
                /\ store' = StoreDelete(store, ck)
                /\ tasks' = [tasks EXCEPT ![t] =
                                [fr EXCEPT !.pc = "cl_next", !.snap = @ \ {ck}]]
        \/ /\ tasks' = [tasks EXCEPT ![t] = Return(Faulted(fr, FALSE), None)]
           /\ UNCHANGED store
    /\ UNCHANGED <<data, db, reg, serial>>
    /\ Ghost(t)

\* clear resumed: the next key of the list, or self._keys.clear() and the
\* call returns (cache.py:513-516)
ClearNext(t) ==
    /\ At(t, "cl_next")
    /\ LET fr == tasks[t] IN
        IF fr.snap # {}
            THEN /\ tasks' = [tasks EXCEPT ![t] = [fr EXCEPT !.pc = "cl_del"]]
                 /\ UNCHANGED data
            ELSE /\ tasks' = [tasks EXCEPT ![t] = Return(fr, None)]
                 /\ data' = [data EXCEPT ![fr.c] = keys_clear(@)]
    /\ UNCHANGED <<store, db, reg, serial>>
    /\ Ghost(t)

(***************************************************************************)
(* The environment: time and the backing tables.                           *)
(***************************************************************************)
\* the keys of the store st whose ttl runs out with the next unit of time
Expiring(st) == {y \in DOMAIN st : st[y].ttl <= 1}

\* time passes and the store drops nothing
Tick_keep ==
    /\ DOMAIN store # {}
    /\ AllIdle
    /\ last' = NoLast
    /\ lapsed' = IF serial THEN lapsed \cup Expiring(store) ELSE lapsed
    /\ UNCHANGED <<data, store, db, tasks, reg, serial, pre, calls>>

\* one unit of time passes: the store drops the entries whose ttl is over.
\* A unit of time is long: no call is in flight across it.
Tick ==
    /\ DOMAIN store # {}
    /\ AllIdle
    /\ store' = [x \in {y \in DOMAIN store : store[y].ttl > 1} |->
                    [store[x] EXCEPT !.ttl = @ - 1]]
    /\ last' = NoLast
    /\ lapsed' = IF serial THEN lapsed \cup Expiring(store) ELSE lapsed
    /\ UNCHANGED <<data, db, tasks, reg, serial, pre, calls>>

\* a row of a table is written or deleted by the rest of the program,
\* between the calls
DbWrite(c, q, v) ==
    /\ c \in DOMAIN data
    /\ AllIdle
    /\ db[c][q] # v
    /\ db' = [db EXCEPT ![c][q] = v]
    /\ last' = NoLast
    /\ UNCHANGED <<data, store, tasks, reg, serial, pre, calls, lapsed>>

(***************************************************************************)
(* CacheManager.init_non_lazy_caches.                                      *)
(***************************************************************************)
\* the orders in which a loop over the entries of d can meet them
ItemOrders(d) ==
    {o \in [1..Cardinality(DOMAIN d) -> DOMAIN d] :
        \A i, j \in DOMAIN o : o[i] = o[j] => i = j}

\* CacheManager.init_non_lazy_caches(): for name, cache in
\* self._data.items() (cache.py:526-529)
CallInit(t) ==
    /\ MayCall(t)
    /\ \E o \in ItemOrders(data) :
            tasks' = [tasks EXCEPT ![t] = init_next([IdleFrame EXCEPT !.todo = o])]
    /\ UNCHANGED <<data, store, db, reg, serial>>
    /\ Ghost(t)

(***************************************************************************)
(* The codec field by field.  _serialize_value and _deserialize_value      *)
(* above take a record whose fields are all plain values; here a record    *)
(* type declares a kind for each field:                                    *)
(*   "scalar"    int, float, str or bool                                   *)
(*   "datetime"  a datetime                                                *)
(*   "enum_str"  a field with enum_class whose members are str instances   *)
(*   "enum"      a field with enum_class whose members are plain Enum      *)
(*   "related"   a forward relation: the value is a model instance         *)
(*   "reverse"   a reverse relation: a list or set with _related_name      *)
(***************************************************************************)
Fields == {"f", "g"}
FieldKinds == {"scalar", "datetime", "enum_str", "enum", "related", "reverse"}

\* the value None of a field
PyNone == [k |-> "None", v |-> 0]

\* the values a field of a kind can hold
FieldValues(kind) == {PyNone} \cup {[k |-> kind, v |-> n] : n \in 1..MaxVer}

\* the record types and their instances
RecordTypes == [Fields -> FieldKinds]
Instances(ty) ==
    {[type |-> ty, fields |-> fs, saved |-> sv] :
        fs \in {g \in [Fields -> UNION {FieldValues(k) : k \in FieldKinds}] :
                    \A f \in Fields : g[f] \in FieldValues(ty[f])},
        sv \in BOOLEAN}

\* _serialize_value of a field's value (cache.py:263-305): a datetime
\* becomes its isoformat string (268-269), a related instance the value of
\* its related_name or "id" attribute (282-285), a plain Enum member its
\* str() (303-305); None, int, float, str and bool stay (263-264, 299-301)
serialize_field(val) ==
    CASE val.k = "datetime" -> [k |-> "isoformat", v |-> val.v]
      [] val.k = "related" -> [k |-> "scalar", v |-> val.v]
      [] val.k = "enum" -> [k |-> "enum_repr", v |-> val.v]
      [] OTHER -> val

\* _serialize_value of a model instance (cache.py:272-287): the mapping of
\* its fields, without the lists and sets that have _related_name
serialize_instance(inst) ==
    [f \in {g \in Fields : inst.fields[g].k # "reverse"} |->
        serialize_field(inst.fields[f])]

\* field.enum_class(value), ValueError giving None (cache.py:147-153)
enum_class(kind, val) == IF val.k = kind THEN val ELSE PyNone

\* field.to_python_value(value) (cache.py:170-174): a datetime field
\* parses the isoformat string
to_python_value(kind, val) ==
    IF kind = "datetime" /\ val.k = "isoformat"
        THEN [k |-> "datetime", v |-> val.v]
        ELSE val

\* _deserialize_value(value, target_type) for a mapping and a model class
\* (cache.py:135-180): entries of reverse relations are skipped (144-145),
\* enum fields go through enum_class, every value through to_python_value
\* and setattr; accepts tells whether setattr takes a plain value for a
\* relation field or raises, which is logged (175-177); the instance is
\* marked as saved (179)
deserialize_instance(d, ty, accepts) ==
    LET processed(f) ==
            IF ty[f] \in {"enum_str", "enum"} THEN enum_class(ty[f], d[f]) ELSE d[f]
        set(f) ==
            IF ty[f] = "related" /\ ~accepts
                THEN PyNone
                ELSE to_python_value(ty[f], processed(f))
    IN [type |-> ty,
        fields |-> [f \in Fields |->
                        IF f \in DOMAIN d /\ ty[f] # "reverse" THEN set(f) ELSE PyNone],
        saved |-> TRUE]

\* _serialize_value(instance)
CallSerialize(t, inst) ==
    /\ MayCall(t)
    /\ tasks' = [tasks EXCEPT ![t] =
                    [IdleFrame EXCEPT !.op = "codec", !.pc = "serialized",
                                      !.arg = inst, !.out = serialize_instance(inst)]]
    /\ UNCHANGED <<data, store, db, reg, serial>>
    /\ Ghost(t)

\* _deserialize_value(serialized, type(instance))
Deserialize(t) ==
    /\ tasks[t].op = "codec"
    /\ tasks[t].pc = "serialized"
    /\ \E accepts \in BOOLEAN :
            tasks' = [tasks EXCEPT ![t] =
                        [@ EXCEPT !.pc = "done",
                                  !.ret = deserialize_instance(tasks[t].out,
                                                               tasks[t].arg.type, accepts)]]
    /\ UNCHANGED <<data, store, db, reg, serial>>
    /\ Ghost(t)

(***************************************************************************)
(* CacheManager.get / update / reload and the typed handle Cache.          *)
(***************************************************************************)
\* a call on an unknown name that raises KeyError
root_miss_raise(t, op, name, key, arg) ==
    /\ MayCall(t)
    /\ Upper(name) \notin DOMAIN data
    /\ tasks' = [tasks EXCEPT ![t] = Raise(Frame(op, Upper(name), key, arg), "KeyError")]
    /\ UNCHANGED <<data, store, db, reg, serial>>
    /\ Ghost(t)

\* get_cache finds no entry under name.upper(): `if cache` fails and the
\* call returns None (cache.py:618-637)
root_miss(t, op, name, key, arg) ==
    /\ MayCall(t)
    /\ Upper(name) \notin DOMAIN data
    /\ tasks' = [tasks EXCEPT ![t] = Return(Frame(op, Upper(name), key, arg), None)]
    /\ UNCHANGED <<data, store, db, reg, serial>>
    /\ Ghost(t)

\* CacheManager.get(name, key) (cache.py:622-625)
RootGet(t, name, key) ==
    \/ CallGet(t, Upper(Upper(name)), key)
    \/ root_miss(t, "get", Upper(name), key, None)

\* CacheManager.update(name, key, value) (cache.py:627-631)
RootUpdate(t, name, key, arg) ==
    \/ CallUpdate(t, Upper(Upper(name)), key, arg)
    \/ root_miss(t, "update", Upper(name), key, arg)

\* CacheManager.reload(name) (cache.py:633-637)
RootReload(t, name) ==
    \/ CallReload(t, Upper(Upper(name)))
    \/ root_miss(t, "reload", Upper(name), <<>>, None)

\* Cache(module).get(key) (cache.py:647-652)
CacheGet(t, module, key) == RootGet(t, Upper(module), key)

\* Cache(module).update(key, value) (cache.py:647-648, 654-656)
CacheUpdate(t, module, key, arg) == RootUpdate(t, Upper(module), key, arg)

\* Cache(module).reload() (cache.py:647-648, 658-660)
CacheReload(t, module) == RootReload(t, Upper(module))

(***************************************************************************)
(* CacheManager.listener.                                                  *)
(***************************************************************************)
\* wrapper(*args, **kwargs) of @CacheRoot.listener(name): the wrapped
\* function is called (cache.py:565-571)
ListenerCall(t, name) ==
    /\ MayCall(t)
    /\ tasks' = [tasks EXCEPT ![t] =
                    [Frame("listener", Upper(name), <<>>, None) EXCEPT !.pc = "wrapped"]]
    /\ UNCHANGED <<data, store, db, reg, serial>>
    /\ Ghost(t)

\* the finally clause once the wrapped function ended as how: refresh is
\* awaited when the name is registered with a refresher, which sends
\* refresh to get_data (cache.py:572-576, 369-374)
listener_finally(fr, how) ==
    IF fr.c \in DOMAIN data /\ data[fr.c].with_refresh # "None"
        THEN [Frame("refresh", fr.c, <<>>, None) EXCEPT
                !.pc = "get_data", !.wrap = how, !.nref = fr.nref + 1]
        ELSE Finish([fr EXCEPT !.wrap = how], None, {},
                    IF how = "raised" THEN "WrappedError" ELSE "None")

\* a wrapper that refreshes only when the wrapped function returned
Wrapped_return_only(t) ==
    /\ At(t, "wrapped")
    /\ \E how \in {"returned", "raised"} :
            tasks' = [tasks EXCEPT ![t] =
                        IF how = "raised"
                            THEN Finish([tasks[t] EXCEPT !.wrap = how], None, {},
                                        "WrappedError")
                            ELSE listener_finally(tasks[t], how)]
    /\ \/ UNCHANGED db
       \/ \E c \in DOMAIN data, q \in RecKeys, v \in 0..MaxVer : db' = [db EXCEPT ![c][q] = v]
    /\ last' = NoLast
    /\ UNCHANGED <<data, store, reg, serial, pre, calls, lapsed>>

\* the wrapped function, an operation on the tables, returns or raises;
\* then the finally clause runs (cache.py:566-576)
Wrapped(t) ==
    /\ At(t, "wrapped")
    /\ \E how \in {"returned", "raised"} :
            tasks' = [tasks EXCEPT ![t] = listener_finally(tasks[t], how)]
    /\ \/ UNCHANGED db
       \/ \E c \in DOMAIN data, q \in RecKeys, v \in 0..MaxVer : db' = [db EXCEPT ![c][q] = v]
    /\ last' = NoLast
    /\ UNCHANGED <<data, store, reg, serial, pre, calls, lapsed>>

(***************************************************************************)
(* The decorators of CacheManager, called while modules are imported.      *)
(***************************************************************************)
\* @CacheRoot.new(name, lazy_load, expire) (cache.py:536-558)
New(name, lazy_load, expire, f) ==
    /\ data' = new(data, name, lazy_load, expire, f)
    /\ reg' = RegCall("new", name, new_raises(data, name))
    /\ UNCHANGED <<store, db, tasks, serial, pre, last, calls, lapsed>>

\* @CacheRoot.updater(name) (cache.py:582-590)
AttachUpdater(name, f) ==
    /\ data' = updater(data, name, f)
    /\ reg' = RegCall("updater", name, validate_name(data, name))
    /\ UNCHANGED <<store, db, tasks, serial, pre, last, calls, lapsed>>

\* @CacheRoot.getter(name, result_model) (cache.py:592-601)
AttachGetter(name, result_model, f) ==
    /\ data' = getter(data, name, result_model, f)
    /\ reg' = RegCall("getter", name, validate_name(data, name))
    /\ UNCHANGED <<store, db, tasks, serial, pre, last, calls, lapsed>>

\* @CacheRoot.with_refresh(name) (cache.py:603-611)
AttachRefresh(name, f) ==
    /\ data' = with_refresh(data, name, f)
    /\ reg' = RegCall("with_refresh", name, validate_name(data, name))
    /\ UNCHANGED <<store, db, tasks, serial, pre, last, calls, lapsed>>

(***************************************************************************)
(* Specifications.                                                         *)
(***************************************************************************)
EmptyRegistry == [x \in {} |-> CacheData(<<>>, "load_dict", 1, TRUE)]

\* a cache registered with its loader alone
Bare(lazy_load) == new(EmptyRegistry, <<"p">>, lazy_load, MaxExpire, "load_dict")

\* a cache with an updater and no getter
WithUpdater(lazy_load) == updater(Bare(lazy_load), <<"p">>, "put")

\* the registrations of __init_cache.py:15-49 (PLUGINS; GROUPS, BOT and
\* USERS alike)
Plugins(lazy_load) ==
    with_refresh(updater(getter(Bare(lazy_load), <<"p">>, "Model", "fetch"),
                         <<"p">>, "put"),
                 <<"p">>, "requery")

\* the registrations of __init_cache.py:177-193 (BAN; LEVEL alike)
Ban(lazy_load) ==
    getter(new(EmptyRegistry, <<"p">>, lazy_load, MaxExpire, "load_list"),
           <<"p">>, "list", "filter")

\* the hooks of PLUGINS on a cache whose getter declares result_model=dict:
\* the dataset is read back as the mapping it was stored as
Mapped(lazy_load) ==
    with_refresh(updater(getter(Bare(lazy_load), <<"p">>, "dict", "fetch"),
                         <<"p">>, "put"),
                 <<"p">>, "requery")

\* the registries the calls below run against
Registries ==
    UNION {{Bare(l), WithUpdater(l), Plugins(l), Ban(l)} : l \in BOOLEAN}
        \cup {Mapped(TRUE)}

InitWith(registries, ser) ==
    /\ data \in registries
    /\ store = EmptyStore
    /\ db = [c \in CacheNames |-> NoRows]
    /\ tasks = [t \in Tasks |-> IdleFrame]
    /\ reg = NoCall
    /\ serial = ser
    /\ pre = NoPre
    /\ last = NoLast
    /\ calls = 0
    /\ lapsed = {}

\* the values a caller passes to update
UpdateArgs(key) == {None} \cup {Obj(key, v) : v \in 1..MaxVer}

Next ==
    \/ \E t \in Tasks, c \in CacheNames, key \in RecKeys : CallGet(t, c, key)
    \/ \E t \in Tasks, c \in CacheNames : CallGetAll(t, c)
    \/ \E t \in Tasks, c \in CacheNames, key \in RecKeys :
            \E arg \in UpdateArgs(key) : CallUpdate(t, c, key, arg)
    \/ \E t \in Tasks, c \in CacheNames : CallRefresh(t, c)
    \/ \E t \in Tasks, c \in CacheNames : CallReload(t, c)
    \/ \E t \in Tasks : Done(t)
    \/ \E t \in Tasks : ReloadFunc(t)
    \/ \E t \in Tasks : ReloadEnd(t)
    \/ \E t \in Tasks : SetKeySet(t)
    \/ \E t \in Tasks : SetKeyAdd(t)
    \/ \E t \in Tasks : GetKey(t)
    \/ \E t \in Tasks : UpdFetch(t)
    \/ \E t \in Tasks : GetData(t)
    \/ \E t \in Tasks : Fetch(t)
    \/ \E t \in Tasks : RefreshQuery(t)
    \/ \E t \in Tasks : SetDataDelete(t)
    \/ \E t \in Tasks : SetDataSet(t)
    \/ \E t \in Tasks : GadGet(t)
    \/ \E t \in Tasks : GadNext(t)
    \/ Tick
    \/ \E c \in CacheNames, q \in RecKeys, v \in 0..MaxVer : DbWrite(c, q, v)

\* calls in flight interleave at their awaits
Init == InitWith(Registries, FALSE)
Spec == Init /\ [][Next]_vars

\* one caller, each call awaited before the next
SerialInit == InitWith(Registries, TRUE)
SerialSpec == SerialInit /\ [][Next]_vars

\* the registration phase: decorators run against an empty registry
RegNext ==
    \/ \E name \in RawNames, l \in BOOLEAN, f \in Loaders : New(name, l, MaxExpire, f)
    \/ \E name \in RawNames : AttachUpdater(name, "put")
    \/ \E name \in RawNames, g \in {<<"Model", "fetch">>, <<"list", "filter">>} :
            AttachGetter(name, g[1], g[2])
    \/ \E name \in RawNames : AttachRefresh(name, "requery")

RegInit == InitWith({EmptyRegistry}, TRUE)
RegSpec == RegInit /\ [][RegNext]_vars

\* operations on the tables wrapped by a listener, next to the gets that
\* fill the dataset a refresher works on
ListenerNext ==
    \/ \E t \in Tasks, name \in RawNames : ListenerCall(t, name)
    \/ \E t \in Tasks : Wrapped(t)
    \/ \E t \in Tasks, c \in CacheNames, key \in RecKeys : CallGet(t, c, key)
    \/ \E t \in Tasks : GetKey(t)
    \/ \E t \in Tasks : GetData(t)
    \/ \E t \in Tasks : Fetch(t)
    \/ \E t \in Tasks : RefreshQuery(t)
    \/ \E t \in Tasks : SetDataDelete(t)
    \/ \E t \in Tasks : SetDataSet(t)
    \/ \E t \in Tasks : Done(t)

\* calls through the registry and through typed handles, on names that
\* are registered and names that are not
RootNext ==
    \/ \E t \in Tasks, n \in RawNames, key \in RecKeys : RootGet(t, n, key)
    \/ \E t \in Tasks, n \in RawNames, key \in RecKeys :
            \E arg \in UpdateArgs(key) : RootUpdate(t, n, key, arg)
    \/ \E t \in Tasks, n \in RawNames : RootReload(t, n)
    \/ \E t \in Tasks, n \in RawNames, key \in RecKeys : CacheGet(t, n, key)
    \/ \E t \in Tasks, n \in RawNames, key \in RecKeys :
            \E arg \in UpdateArgs(key) : CacheUpdate(t, n, key, arg)
    \/ \E t \in Tasks, n \in RawNames : CacheReload(t, n)
    \/ \E t \in Tasks : Done(t)
    \/ \E t \in Tasks : ReloadFunc(t)
    \/ \E t \in Tasks : ReloadEnd(t)
    \/ \E t \in Tasks : SetKeySet(t)
    \/ \E t \in Tasks : SetKeyAdd(t)
    \/ \E t \in Tasks : GetKey(t)
    \/ \E t \in Tasks : UpdFetch(t)
    \/ \E c \in CacheNames, q \in RecKeys, v \in 0..MaxVer : DbWrite(c, q, v)

RootInit == InitWith({EmptyRegistry, Bare(TRUE), Bare(FALSE), WithUpdater(TRUE)}, TRUE)
RootSpec == RootInit /\ [][RootNext]_vars

\* the codec applied to the instances of every record type
CodecNext ==
    \/ \E t \in Tasks, ty \in RecordTypes : \E inst \in Instances(ty) : CallSerialize(t, inst)
    \/ \E t \in Tasks : Deserialize(t)
    \/ \E t \in Tasks : Done(t)

CodecInit == InitWith({EmptyRegistry}, TRUE)
CodecSpec == CodecInit /\ [][CodecNext]_vars

\* two caches, one with a keyed loader and one whose loader returns a list
TwoCaches(lazy_p, lazy_b) ==
    new(new(EmptyRegistry, <<"p">>, lazy_p, MaxExpire, "load_dict"),
        <<"b">>, lazy_b, MaxExpire, "load_list")

\* the start of the process: init_non_lazy_caches over the tables as they
\* are
InitNext ==
    \/ \E t \in Tasks : CallInit(t)
    \/ \E t \in Tasks : ReloadFunc(t)
    \/ \E t \in Tasks : ReloadEnd(t)
    \/ \E t \in Tasks : SetKeySet(t)
    \/ \E t \in Tasks : SetKeyAdd(t)
    \/ \E t \in Tasks : Done(t)
    \/ \E c \in CacheNames, q \in RecKeys, v \in 0..MaxVer : DbWrite(c, q, v)

InitInit == InitWith({TwoCaches(lp, lb) : lp, lb \in BOOLEAN}, FALSE)
InitSpec == InitInit /\ [][InitNext]_vars

\* the operations on the keys of two caches, by one caller or by callers
\* that interleave
KeyNext ==
    \/ \E t \in Tasks, c \in CacheNames, key \in RecKeys :
            CallSetKey(t, c, key, Obj(key, MaxVer))
    \/ \E t \in Tasks, c \in CacheNames, key \in RecKeys : CallDeleteKey(t, c, key)
    \/ \E t \in Tasks, c \in CacheNames : CallClear(t, c)
    \/ \E t \in Tasks, c \in CacheNames : CallGetAll(t, c)
    \/ \E t \in Tasks : SetKeySet(t)
    \/ \E t \in Tasks : SetKeyAdd(t)
    \/ \E t \in Tasks : DeleteKeyDelete(t)
    \/ \E t \in Tasks : DeleteKeyDiscard(t)
    \/ \E t \in Tasks : ClearDelete(t)
    \/ \E t \in Tasks : ClearNext(t)
    \/ \E t \in Tasks : ReloadFunc(t)
    \/ \E t \in Tasks : ReloadEnd(t)
    \/ \E t \in Tasks : GadGet(t)
    \/ \E t \in Tasks : GadNext(t)
    \/ \E t \in Tasks : Done(t)
    \/ \E c \in CacheNames, q \in RecKeys, v \in 0..MaxVer : DbWrite(c, q, v)

KeyInit ==
    \E ser \in BOOLEAN : InitWith({TwoCaches(lp, TRUE) : lp \in BOOLEAN}, ser)
KeySpec == KeyInit /\ [][KeyNext]_vars

\* the operations on one key of two caches, by callers that interleave
PerKeyNext ==
    \/ \E t \in Tasks, c \in CacheNames, key \in RecKeys :
            CallSetKey(t, c, key, Obj(key, MaxVer))
    \/ \E t \in Tasks, c \in CacheNames, key \in RecKeys : CallDeleteKey(t, c, key)
    \/ \E t \in Tasks, c \in CacheNames, key \in RecKeys :
            \E arg \in UpdateArgs(key) : CallUpdate(t, c, key, arg)
    \/ \E t \in Tasks : GetKey(t)
    \/ \E t \in Tasks : UpdFetch(t)
    \/ \E t \in Tasks : SetKeySet(t)
    \/ \E t \in Tasks : SetKeyAdd(t)
    \/ \E t \in Tasks : DeleteKeyDelete(t)
    \/ \E t \in Tasks : DeleteKeyDiscard(t)
    \/ \E t \in Tasks : Done(t)
    \/ \E c \in CacheNames, q \in RecKeys, v \in 0..MaxVer : DbWrite(c, q, v)

PerKeyInit == InitWith({updater(TwoCaches(TRUE, TRUE), <<"p">>, "put")}, FALSE)
PerKeySpec == PerKeyInit /\ [][PerKeyNext]_vars

ListenerInit == InitWith({Bare(TRUE), Plugins(TRUE), Mapped(TRUE)}, TRUE)
ListenerSpec == ListenerInit /\ [][ListenerNext]_vars

(***************************************************************************)
(* Properties of the registry.                                             *)
(***************************************************************************)
\* C3: CacheManager.new under a name whose upper-case form is registered
\* already raises DbCacheException, and the registry -- so the loader, the
\* hooks, the ttl, the lazy flag and the reload count of the first
\* registration -- is what it was.
C3_DuplicateNewRaises ==
    [][(reg'.call = "new" /\ Upper(reg'.name) \in DOMAIN data)
            => /\ reg'.exc = "DbCacheException"
               /\ DOMAIN data' = DOMAIN data
               /\ data'[Upper(reg'.name)] = data[Upper(reg'.name)]
               /\ data' = data]_vars

\* a registration under "p" was refused for the entry "P", which holds the
\* hooks attached since its registration
C3_Witness ==
    /\ reg = RegCall("new", <<"p">>, TRUE)
    /\ <<"P">> \in DOMAIN data
    /\ data[<<"P">>].getter = "fetch"
    /\ data[<<"P">>].updater = "put"

\* C4: CacheManager.getter, updater and with_refresh on a name that was
\* never registered raise DbCacheException and leave the registry as it
\* was: no entry is created, no entry gains a hook.
C4_AttachUnknownRaises ==
    [][(reg'.call \in {"getter", "updater", "with_refresh"}
            /\ Upper(reg'.name) \notin DOMAIN data)
            => /\ reg'.exc = "DbCacheException"
               /\ data' = data]_vars

\* a getter was refused for "b" while "P" is registered without hooks
C4_Witness ==
    /\ reg = RegCall("getter", <<"b">>, TRUE)
    /\ DOMAIN data = {<<"P">>}
    /\ data[<<"P">>].getter = "None"
    /\ data[<<"P">>].updater = "None"
    /\ data[<<"P">>].with_refresh = "None"

(***************************************************************************)
(* Properties of reload as one caller sees them.                           *)
(***************************************************************************)
\* val holds the fields of row (k, v): the instance or its mapping
SameRecord(val, k, v) == val.t \in {"obj", "dict"} /\ val.f /\ val.k = k /\ val.v = v

\* the call that has just completed followed a successful reload of its
\* cache by a keyed loader, with no expiry and no write in between, and no
\* call of the store failed under it
AfterKeyedReload(fr) ==
    /\ serial
    /\ fr.pc = "done"
    /\ ~fr.fault
    /\ pre.last = fr.c
    /\ data[fr.c].func = "load_dict"

\* C1: after a successful reload by a keyed loader, with no expiry and no
\* write in between, get(k) returns the loader's value for k, for every key
\* k of the loader's mapping.
C1_GetAfterReload ==
    \A t \in Tasks :
        (AfterKeyedReload(tasks[t]) /\ tasks[t].op = "get"
                /\ db[tasks[t].c][tasks[t].key] > 0)
            => /\ tasks[t].exc = "None"
               /\ SameRecord(tasks[t].ret, tasks[t].key, db[tasks[t].c][tasks[t].key])

\* C2: once a keyed reload has completed, whatever the calls before it,
\* get_all returns exactly the keys of the loader's mapping, each with the
\* loader's value.
C2_GetAllAfterReload ==
    \A t \in Tasks :
        (AfterKeyedReload(tasks[t]) /\ tasks[t].op = "get_all")
            => /\ tasks[t].exc = "None"
               /\ {e.k : e \in tasks[t].acc} = Rows(PyDict(db[tasks[t].c]))
               /\ \A e \in tasks[t].acc : SameRecord(e.val, e.k, db[tasks[t].c][e.k])

\* C5: when the loader raises, reload hands the error to its caller and
\* the stored entries, the tracked keys and reload_count of the cache are
\* what they were when reload was called.
C5_LoaderFailure ==
    [][\A t \in Tasks :
            (serial /\ tasks[t].op = "reload" /\ tasks[t].pc = "reload_func"
                    /\ tasks'[t].pc = "done")
                => /\ tasks'[t].exc = "LoaderError"
                   /\ store' = pre.store
                   /\ data'[tasks[t].c].keys = pre.keys
                   /\ data'[tasks[t].c].reload_count = pre.reload_count]_vars

\* a reload of a populated cache has failed in its loader
C5_Witness ==
    /\ serial
    /\ tasks[1].op = "reload"
    /\ tasks[1].pc = "done"
    /\ tasks[1].exc = "LoaderError"
    /\ store # EmptyStore
    /\ data[tasks[1].c].keys # {}
    /\ data[tasks[1].c].reload_count = 1

\* C7: update(key, value) on a cache with no updater does not raise and
\* leaves the stored entries and the tracked keys as they were.
C7_UpdateWithoutUpdater ==
    \A t \in Tasks :
        (serial /\ tasks[t].op = "update" /\ tasks[t].pc = "done"
                /\ data[tasks[t].c].updater = "None")
            => /\ tasks[t].exc = "None"
               /\ store = pre.store
               /\ data[tasks[t].c].keys = pre.keys

\* update with a value has returned on a populated cache with no updater
C7_Witness ==
    /\ serial
    /\ tasks[1].op = "update"
    /\ tasks[1].pc = "done"
    /\ Truthy(tasks[1].arg)
    /\ data[tasks[1].c].updater = "None"
    /\ store # EmptyStore
    /\ data[tasks[1].c].keys # {}

\* the store once reload has set the first n of the keys ks of the loader
\* output out over the store st
RECURSIVE ReloadStore(_, _, _, _, _)
ReloadStore(st, d, out, ks, n) ==
    IF n = 0 THEN st
    ELSE StoreSet(ReloadStore(st, d, out, ks, n - 1), _get_cache_key(d.name, ks[n]),
                  _serialize_value(reload_value(out, ks[n])), d.expire)

\* the cache keys of the first n of the keys ks
ReloadKeys(d, ks, n) == {_get_cache_key(d.name, ks[i]) : i \in 1..n}

\* what a reload called in the state pre leaves, as a function of the
\* loader's outcome (fr.out, None when it raised) and of the set of the
\* store that failed, if one did: the error handed to the caller, the
\* store, the tracked keys and reload_count
ReloadOutcome(fr) ==
    LET d == data[fr.c]
        ks == reload_keys(fr.out) IN
    IF fr.out = None
        THEN /\ fr.exc = "LoaderError"
             /\ store = pre.store
             /\ d.keys = pre.keys
             /\ d.reload_count = pre.reload_count
    ELSE IF ~fr.fault
        THEN /\ fr.exc = "None"
             /\ store = ReloadStore(pre.store, d, fr.out, ks, Len(ks))
             /\ d.keys = pre.keys \cup ReloadKeys(d, ks, Len(ks))
             /\ d.reload_count = pre.reload_count + 1
    ELSE /\ fr.exc = "StoreError"
         /\ \E n \in 0..(Len(ks) - 1) :
                /\ store = ReloadStore(pre.store, d, fr.out, ks, n)
                /\ d.keys = pre.keys \cup ReloadKeys(d, ks, n)
         /\ d.reload_count = pre.reload_count

\* C8: on a cache with no refresher, refresh is reload: from the same
\* state and with the same loader outcome both leave the same stored keys,
\* the same values and the same reload_count, and both raise the same
\* error.
C8_RefreshIsReload ==
    \A t \in Tasks :
        (serial /\ tasks[t].pc = "done"
                /\ \/ tasks[t].op = "reload"
                   \/ tasks[t].op = "refresh" /\ data[tasks[t].c].with_refresh = "None")
            => ReloadOutcome(tasks[t])

\* refresh has reloaded two rows into a cache with no refresher
C8_Witness ==
    /\ serial
    /\ tasks[1].op = "refresh"
    /\ tasks[1].pc = "done"
    /\ tasks[1].exc = "None"
    /\ data[tasks[1].c].with_refresh = "None"
    /\ Rows(tasks[1].out) = RecKeys
    /\ store # pre.store
    /\ data[tasks[1].c].reload_count = pre.reload_count + 1

\* C9: a second reload right after a reload, with the loader's result
\* unchanged, no expiry and no other call in between, leaves the stored
\* entries and the tracked keys as the first left them.
C9_ReloadTwice ==
    \A t \in Tasks :
        (serial /\ tasks[t].op = "reload" /\ tasks[t].pc = "done"
                /\ tasks[t].exc = "None" /\ pre.last = tasks[t].c)
            => /\ store = pre.store
               /\ data[tasks[t].c].keys = pre.keys

\* the second of two reloads in succession has completed on a cache that
\* holds entries
C9_Witness ==
    /\ serial
    /\ tasks[1].op = "reload"
    /\ tasks[1].pc = "done"
    /\ tasks[1].exc = "None"
    /\ pre.last = tasks[1].c
    /\ Rows(tasks[1].out) # {}
    /\ data[tasks[1].c].reload_count = 2

(***************************************************************************)
(* Properties under interleaving.                                          *)
(***************************************************************************)
\* this step is the one in which the reload that task t runs -- called
\* directly, by refresh without a refresher or by the first-access check
\* of get and get_all -- completes: its loader returned and every key is set
CompletesReload(t) ==
    /\ tasks'[t] # tasks[t]
    /\ tasks[t].op # "update"
    /\ \/ tasks[t].pc = "reload_end"
       \/ tasks[t].pc = "set_key_add" /\ Len(tasks[t].left) = 1

\* C6: reload_count starts at 0; a step that completes a reload adds
\* exactly 1 to the count of its cache; no other step of any call, and no
\* reload that fails, changes a count, whatever the interleaving.
C6_ReloadCount ==
    /\ \A c \in DOMAIN data : data[c].reload_count = 0
    /\ [][\A c \in DOMAIN data :
            data'[c].reload_count =
                IF \E t \in Tasks : tasks[t].c = c /\ CompletesReload(t)
                    THEN data[c].reload_count + 1
                    ELSE data[c].reload_count]_vars

\* the two calls made so far ran together and each has completed a reload:
\* the one get started on a cache never loaded, and the one called directly
C6_Witness ==
    /\ ~serial
    /\ calls = 2
    /\ tasks[1].op = "get"
    /\ tasks[1].pc = "get_key"
    /\ tasks[2].op = "reload"
    /\ tasks[2].pc = "done"
    /\ tasks[2].exc = "None"
    /\ tasks[1].c = tasks[2].c
    /\ data[tasks[1].c].reload_count = 2

\* C10: a failure of the store during get or get_all never reaches the
\* caller, whatever the configuration of the cache: the call returns what
\* it returns on a miss, which is None for get on a cache with no getter
\* and the empty mapping for get_all.
C10_StoreFailureSwallowed ==
    \A t \in Tasks :
        (tasks[t].pc = "done" /\ tasks[t].fault /\ tasks[t].op \in {"get", "get_all"})
            => /\ tasks[t].exc = "None"
               /\ (tasks[t].op = "get" /\ data[tasks[t].c].getter = "None")
                    => tasks[t].ret = None
               /\ tasks[t].op = "get_all" => tasks[t].acc = {}

(***************************************************************************)
(* Properties of the failures of the store.                                *)
(***************************************************************************)
\* C11: a failure of the store during update on a cache with an updater,
\* or during refresh on a cache with a refresher, does not reach the
\* caller: the call returns.
C11_WriteFailureSwallowed ==
    \A t \in Tasks :
        (/\ tasks[t].pc = "done"
         /\ tasks[t].fault
         /\ \/ tasks[t].op = "update" /\ data[tasks[t].c].updater # "None"
            \/ tasks[t].op = "refresh" /\ data[tasks[t].c].with_refresh # "None")
            => /\ tasks[t].exc = "None"
               /\ tasks[t].ret = None

(***************************************************************************)
(* Properties of expiry.                                                   *)
(***************************************************************************)
\* the name of the cache that owns the cache key ck: the key of a dataset
\* is the name, the key of a record starts with the name and ":"
OwnerOf(ck) ==
    IF \E i \in 1..Len(ck) : ck[i] = ":"
        THEN SubSeq(ck, 1, FirstColon(ck) - 1)
        ELSE ck

\* the cache key under which get of frame fr looks its value up: the key
\* of the record, or the dataset when a getter is registered
ReadKey(fr) ==
    IF data[fr.c].getter = "None"
        THEN _get_cache_key(data[fr.c].name, fr.key)
        ELSE data[fr.c].name

\* what get of frame fr returns when the store holds nothing for it: None,
\* or what the getter makes of an empty dataset
MissOutcome(fr) ==
    CASE data[fr.c].getter = "None" -> None
      [] data[fr.c].getter = "fetch" ->
            IF db[fr.c][fr.key] > 0 THEN Obj(fr.key, db[fr.c][fr.key]) ELSE None
      [] OTHER -> PyList(NoRows)

\* the call of frame fr found its cache eager and never loaded: get and
\* get_all reload it first
ReloadsFirst(fr) == pre.reload_count = 0 /\ ~data[fr.c].lazy_load

\* C12: every entry a call writes to the store carries the ttl of the
\* cache that owns it; and once the ttl of a key has run out with no
\* rewrite since, get on that key returns what it returns on a miss (None
\* on a cache with no getter), never the value that expired.
C12_Expiry ==
    /\ [][\A ck \in DOMAIN store' :
            (tasks' # tasks /\ (ck \notin DOMAIN store \/ store'[ck] # store[ck]))
                => store'[ck].ttl = data[OwnerOf(ck)].expire]_vars
    /\ [](\A t \in Tasks :
            (/\ serial
             /\ tasks[t].op = "get"
             /\ tasks[t].pc = "done"
             /\ ~tasks[t].fault
             /\ ~ReloadsFirst(tasks[t])
             /\ ReadKey(tasks[t]) \in lapsed)
                => /\ tasks[t].exc = "None"
                   /\ tasks[t].ret = MissOutcome(tasks[t]))

\* get has returned None for a record that reload had stored, that is
\* tracked still and whose ttl ran out since
C12_Witness ==
    /\ serial
    /\ tasks[1].op = "get"
    /\ tasks[1].pc = "done"
    /\ tasks[1].ret = None
    /\ data[tasks[1].c].getter = "None"
    /\ data[tasks[1].c].reload_count = 1
    /\ db[tasks[1].c][tasks[1].key] > 0
    /\ ReadKey(tasks[1]) \in lapsed
    /\ ReadKey(tasks[1]) \in data[tasks[1].c].keys

(***************************************************************************)
(* Properties of the listener.                                             *)
(***************************************************************************)
\* C13: in a call of an operation wrapped by listener(name), refresh of
\* the named cache is not called while the wrapped operation runs; once it
\* has returned or raised, refresh has been called exactly once when the
\* name is registered with a refresher and not at all otherwise.
C13_ListenerRefreshes ==
    \A t \in Tasks :
        /\ tasks[t].pc = "wrapped" => (tasks[t].nref = 0 /\ tasks[t].wrap = "None")
        /\ tasks[t].wrap # "None" =>
                tasks[t].nref =
                    IF tasks[t].c \in DOMAIN data /\ data[tasks[t].c].with_refresh # "None"
                        THEN 1
                        ELSE 0

\* the wrapped operation raised, and the one refresh that followed has
\* persisted the dataset
C13_Witness ==
    /\ tasks[1].wrap = "raised"
    /\ tasks[1].pc = "done"
    /\ tasks[1].op = "refresh"
    /\ tasks[1].nref = 1
    /\ tasks[1].exc = "None"
    /\ ~tasks[1].fault
    /\ tasks[1].c \in DOMAIN store

(***************************************************************************)
(* Properties of init_non_lazy_caches.                                     *)
(***************************************************************************)
\* the number of reloads of cache c among the reloads ran
ReloadsOf(ran, c) == Cardinality({i \in DOMAIN ran : ran[i].c = c})

\* C14: init_non_lazy_caches reloads every entry with lazy_load False
\* exactly once and no entry with lazy_load True, whether or not a reload
\* before it raised, and does not raise itself.
C14_InitReloadsEager ==
    \A t \in Tasks :
        tasks[t].op = "init" =>
            /\ \A c \in DOMAIN data :
                    ReloadsOf(tasks[t].ran, c) <= (IF data[c].lazy_load THEN 0 ELSE 1)
            /\ tasks[t].pc # "done" => ~data[tasks[t].c].lazy_load
            /\ tasks[t].pc = "done" =>
                    /\ tasks[t].exc = "None"
                    /\ \A c \in DOMAIN data :
                            ReloadsOf(tasks[t].ran, c) = (IF data[c].lazy_load THEN 0 ELSE 1)

\* both caches are eager; the first reload raised and the second filled
\* its cache
C14_Witness ==
    /\ tasks[1].op = "init"
    /\ tasks[1].pc = "done"
    /\ Len(tasks[1].ran) = 2
    /\ tasks[1].ran[1].exc # "None"
    /\ tasks[1].ran[2].exc = "None"
    /\ data[tasks[1].ran[1].c].reload_count = 0
    /\ data[tasks[1].ran[2].c].reload_count = 1
    /\ data[tasks[1].ran[2].c].keys # {}

(***************************************************************************)
(* Properties of the calls by name.                                        *)
(***************************************************************************)
\* C15: get, update and reload through the registry or a typed handle, on
\* a name that is not registered, return None without raising and leave
\* the registry, the store and the tables as they were.
C15_UnknownName ==
    [][\A t \in Tasks :
          (tasks[t].op = "idle" /\ tasks'[t].op # "idle" /\ tasks'[t].c \notin DOMAIN data)
              => /\ tasks'[t].pc = "done"
                 /\ tasks'[t].exc = "None"
                 /\ tasks'[t].ret = None
                 /\ tasks'[t].acc = IdleFrame.acc
                 /\ data' = data
                 /\ store' = store
                 /\ db' = db
                 /\ reg' = reg]_vars

\* an update on the unregistered name B has returned while the registered
\* cache holds stored keys
C15_Witness ==
    /\ tasks[1].op = "update"
    /\ tasks[1].pc = "done"
    /\ tasks[1].c = <<"B">>
    /\ tasks[1].c \notin DOMAIN data
    /\ tasks[1].arg # None
    /\ tasks[1].ret = None
    /\ tasks[1].exc = "None"
    /\ store # EmptyStore
    /\ \E c \in DOMAIN data : data[c].keys # {}

(***************************************************************************)
(* Properties of the codec.                                                *)
(***************************************************************************)
\* C16: deserialize(serialize(record), type) has the value of the record
\* in every field that is not a reverse relation, has no value in the
\* reverse relations, and is marked as saved.
C16_RoundTrip ==
    \A t \in Tasks :
        (tasks[t].op = "codec" /\ tasks[t].pc = "done") =>
            /\ tasks[t].ret.saved
            /\ \A f \in Fields :
                    tasks[t].ret.fields[f] =
                        IF tasks[t].arg.type[f] = "reverse"
                            THEN PyNone
                            ELSE tasks[t].arg.fields[f]

(***************************************************************************)
(* Properties of the first access.                                         *)
(***************************************************************************)
\* C17: get and get_all on a cache with lazy_load False and reload_count 0
\* read nothing before a full reload has completed: past the awaits of the
\* reload the loader has returned and reload_count is 1, and the call ends
\* without it only by raising.  On a cache with lazy_load True or
\* reload_count > 0 they never enter the reload nor call the loader; get
\* on a lazy cache with no getter and nothing stored under the key returns
\* None.
C17_FirstAccess ==
    \A t \in Tasks :
        (serial /\ tasks[t].op \in {"get", "get_all"}) =>
            LET fr == tasks[t]
                d == data[fr.c] IN
            /\ ReloadsFirst(fr) =>
                    /\ (fr.pc \notin ReloadPcs \cup {"done"})
                            => /\ fr.out # None
                               /\ d.reload_count = pre.reload_count + 1
                    /\ (fr.pc = "done" /\ fr.exc = "None")
                            => /\ fr.out # None
                               /\ d.reload_count = pre.reload_count + 1
            /\ ~ReloadsFirst(fr) =>
                    /\ fr.pc \notin ReloadPcs
                    /\ fr.out = None
                    /\ fr.exc # "LoaderError"
                    /\ d.reload_count = pre.reload_count
            /\ (/\ d.lazy_load
                /\ d.getter = "None"
                /\ fr.op = "get"
                /\ fr.pc = "done"
                /\ ReadKey(fr) \notin DOMAIN pre.store)
                    => /\ fr.ret = None
                       /\ fr.exc = "None"

\* get on an eager cache is about to read its key: the reload it ran has
\* stored the rows and counted itself
C17_Witness ==
    /\ serial
    /\ tasks[1].op = "get"
    /\ tasks[1].pc = "get_key"
    /\ ~data[tasks[1].c].lazy_load
    /\ pre.reload_count = 0
    /\ data[tasks[1].c].reload_count = 1
    /\ tasks[1].out # None
    /\ data[tasks[1].c].keys # {}
    /\ pre.store = EmptyStore
    /\ store # EmptyStore

\* C18: when the only calls made are get / get_all calls that overlap on
\* an eager cache, the loader is called by at most one of them and
\* reload_count never exceeds 1.
C18_PopulatedOnce ==
    \A c \in DOMAIN data :
        (/\ ~serial
         /\ ~data[c].lazy_load
         /\ calls = NumTasks
         /\ \A t \in Tasks : tasks[t].op \in {"get", "get_all"} /\ tasks[t].c = c)
            => /\ data[c].reload_count <= 1
               /\ Cardinality({t \in Tasks : tasks[t].out # None}) <= 1

(***************************************************************************)
(* Properties of refresh and of the un-keyed datasets.                     *)
(***************************************************************************)
\* the records of cache c that reload and update have stored
StoredRows(c) == {q \in RecKeys : _get_cache_key(data[c].name, q) \in DOMAIN store}

\* C19: refresh on a cache with a refresher, once its read of the dataset
\* has returned without a store failure and records are stored, hands the
\* refresher the dataset of exactly those records.
C19_RefreshDataset ==
    [][\A t \in Tasks :
          (/\ tasks[t].op = "refresh"
           /\ tasks[t].pc = "get_data"
           /\ tasks'[t].pc # "get_data"
           /\ ~tasks'[t].fault
           /\ StoredRows(tasks[t].c) # {})
              => /\ tasks'[t].pc = "rf_query"
                 /\ \A q \in RecKeys :
                        tasks'[t].cur.m[q] > 0 <=> q \in StoredRows(tasks[t].c)]_vars

\* C20: on a cache whose loader returns a list and whose getter filters
\* the dataset (BAN, LEVEL), the store holds nothing of the cache but the
\* entry under the sentinel key, and get, while that entry is stored,
\* returns the records of it that match the key.
C20_UnkeyedDataset ==
    \A c \in DOMAIN data :
        (data[c].func = "load_list" /\ data[c].getter = "filter") =>
            LET ck == _get_cache_key(data[c].name, DefaultKey) IN
            /\ \A sk \in DOMAIN store : OwnerOf(sk) = c => sk = ck
            /\ \A t \in Tasks :
                    (/\ serial
                     /\ tasks[t].op = "get"
                     /\ tasks[t].c = c
                     /\ tasks[t].pc = "done"
                     /\ ~tasks[t].fault
                     /\ ~ReloadsFirst(tasks[t])
                     /\ ck \in DOMAIN pre.store
                     /\ ck \notin lapsed)
                        => /\ tasks[t].exc = "None"
                           /\ tasks[t].ret =
                                PyList([q \in RecKeys |->
                                          IF q = tasks[t].key
                                              THEN pre.store[ck].val.m[q] ELSE 0])

(***************************************************************************)
(* Properties of update.                                                   *)
(***************************************************************************)
\* C21: update(key, value) on a cache with an updater, with no store
\* failure, ends without raising; then the key is tracked and its stored
\* entry is the container the updater was given, holding value under key
\* when a value was passed.
C21_UpdateWritesBack ==
    \A t \in Tasks :
        (/\ serial
         /\ tasks[t].op = "update"
         /\ tasks[t].pc = "done"
         /\ data[tasks[t].c].updater # "None"
         /\ ~tasks[t].fault)
            => LET d == data[tasks[t].c]
                   ck == _get_cache_key(d.name, tasks[t].key) IN
               /\ tasks[t].exc = "None"
               /\ ck \in d.keys
               /\ ck \in DOMAIN store
               /\ IsDict(store[ck].val)
               /\ Truthy(tasks[t].arg) => store[ck].val.m[tasks[t].key] = tasks[t].arg.v

(***************************************************************************)
(* Properties of clear and of the operations on one key.                   *)
(***************************************************************************)
\* the only caller's clear has ended with every delete answered
ClearDone(t) ==
    /\ serial
    /\ tasks[t].op = "clear"
    /\ tasks[t].pc = "done"
    /\ ~tasks[t].fault

\* what clear leaves: the keys tracked when it started are not stored, no
\* key is tracked, the entries of the other caches are as they were
ClearEffect(t) ==
    LET c == tasks[t].c IN
    /\ \A ck \in pre.keys : ck \notin DOMAIN store
    /\ data[c].keys = {}
    /\ \A ck \in DOMAIN pre.store \cup DOMAIN store :
            OwnerOf(ck) # c => (/\ ck \in DOMAIN pre.store
                                /\ ck \in DOMAIN store
                                /\ store[ck] = pre.store[ck])

\* no step of a clear changes the entry of another cache
ClearFrame ==
    \A t \in Tasks :
        (tasks'[t] # tasks[t] /\ (tasks[t].op = "clear" \/ tasks'[t].op = "clear"))
            => \A c \in DOMAIN data :
                    (c # tasks[t].c /\ c # tasks'[t].c) => data'[c] = data[c]

\* get_all of the only caller has returned, called right after a clear
\* of its cache that deleted every key, with every read answered
GetAllAfterClear(t) ==
    /\ serial
    /\ tasks[t].op = "get_all"
    /\ tasks[t].pc = "done"
    /\ tasks[t].exc = "None"
    /\ ~tasks[t].fault
    /\ pre.last = <<"clear">> \o tasks[t].c

\* C22: after a clear with no store failure and no other caller, the keys
\* that were tracked are not stored, no key is tracked and the entries and
\* tracked keys of the other caches are unchanged; get_all called next
\* returns the empty mapping, unless the cache is eager and was never
\* reloaded, in which case get_all reloads it first.
C22_Clear ==
    /\ [](\A t \in Tasks : ClearDone(t) => ClearEffect(t))
    /\ [][ClearFrame]_vars
    /\ [](\A t \in Tasks :
            (GetAllAfterClear(t) /\ ~ReloadsFirst(tasks[t]))
                => tasks[t].acc = {})

\* C22 as stated: get_all called after a clear returns the empty mapping
C22_GetAllEmpty ==
    \A t \in Tasks :
        GetAllAfterClear(t) => tasks[t].acc = {}

\* a clear has deleted the keys of its cache while the other cache holds
\* an entry
C22_Witness ==
    /\ ClearDone(1)
    /\ pre.keys # {}
    /\ \A ck \in pre.keys : ck \in DOMAIN pre.store
    /\ data[tasks[1].c].keys = {}
    /\ \E ck \in DOMAIN store : OwnerOf(ck) # tasks[1].c
    /\ \E c \in DOMAIN data : data[c].keys # {}

\* the operations on one key
KeyOps == {"update", "set_key", "delete_key"}

\* C23: no step of update, set_key or delete_key on a key changes the
\* stored entry or the tracked status of another key of the cache, nor
\* anything of another cache, whatever the other callers do.
C23_KeysIndependent ==
    [][\A t \in Tasks :
          (tasks'[t] # tasks[t] /\ (tasks[t].op \in KeyOps \/ tasks'[t].op \in KeyOps))
              => LET fr == IF tasks[t].op \in KeyOps THEN tasks[t] ELSE tasks'[t]
                     own == _get_cache_key(data[fr.c].name, fr.key) IN
                 /\ \A ck \in (DOMAIN store \cup DOMAIN store') \ {own} :
                        /\ ck \in DOMAIN store
                        /\ ck \in DOMAIN store'
                        /\ store'[ck] = store[ck]
                 /\ \A c \in DOMAIN data :
                        /\ data'[c].keys \ {own} = data[c].keys \ {own}
                        /\ c # fr.c => data'[c] = data[c]]_vars

\* delete_key has removed one key of a cache while another key of the
\* cache and an entry of the other cache are stored and tracked
C23_Witness ==
    /\ tasks[1].op = "delete_key"
    /\ tasks[1].pc = "done"
    /\ ~tasks[1].fault
    /\ _get_cache_key(tasks[1].c, tasks[1].key) \notin DOMAIN store
    /\ \E q \in RecKeys \ {tasks[1].key} :
            /\ _get_cache_key(tasks[1].c, q) \in DOMAIN store
            /\ _get_cache_key(tasks[1].c, q) \in data[tasks[1].c].keys
    /\ \E ck \in DOMAIN store : OwnerOf(ck) # tasks[1].c

(***************************************************************************)
(* Properties of the set of tracked keys.                                  *)
(***************************************************************************)
\* C24: a get_all whose reads of the store were all answered, whatever the
\* other callers add to or remove from the tracked keys meanwhile, returns
\* without raising a mapping that has every key that was tracked when its
\* iteration started and is tracked when it ends.
C24_GetAllUnderChange ==
    [][\A t \in Tasks :
          (/\ tasks[t].op = "get_all"
           /\ tasks[t].pc = "gad_next"
           /\ tasks'[t].pc = "done"
           /\ ~tasks'[t].fault)
              => /\ tasks'[t].exc = "None"
                 /\ \A ck \in tasks[t].snap \cap data[tasks[t].c].keys :
                        \E e \in tasks'[t].acc : e.k = original_key(ck)]_vars

\* C25: whenever no call is in flight, every entry of the store under a
\* key of a cache is tracked by that cache, so that get_all and clear reach
\* it.
C25_StoredIsTracked ==
    AllIdle =>
        \A ck \in DOMAIN store :
            OwnerOf(ck) # ck => ck \in data[OwnerOf(ck)].keys

(***************************************************************************)
(* Properties of the getters that fetch on a miss.                         *)
(***************************************************************************)
\* the records of the dataset stored for cache c
DatasetRows(c) ==
    IF data[c].name \in DOMAIN store /\ IsDict(store[data[c].name].val)
        THEN Rows(store[data[c].name].val)
        ELSE {}

\* C26: when get through a getter that fetches on a miss writes the
\* dataset back, with every read of the store answered, the dataset it
\* writes holds every record the stored dataset holds, whatever the other
\* callers have written meanwhile.
C26_FetchKeepsRecords ==
    [][\A t \in Tasks :
          (/\ tasks[t].op = "get"
           /\ tasks[t].pc = "sd_del"
           /\ tasks'[t].pc = "sd_set"
           /\ ~tasks[t].fault)
              => DatasetRows(tasks[t].c) \subseteq Rows(tasks[t].cur)]_vars

====
